---- MODULE Spec2Model ----
(***************************************************************************)
(* Model of the UK stock analyzer: the indicator engine                    *)
(* (StockAnalyzer.calculate_technical_indicators), the news sentiment      *)
(* estimator, the per-symbol aggregator, the Groq result validator, the    *)
(* sheet publisher and the run_daily_analysis orchestration.               *)
(*                                                                         *)
(* Floating point values are modelled as exact extended rationals: a       *)
(* finite value n/d, a signed infinity or NaN (numpy float64 division by   *)
(* zero yields inf or nan, it does not raise).  Rounding is not modelled.  *)
(* Python exceptions are modelled as outcomes [kind |-> "raise"].          *)
(***************************************************************************)
EXTENDS Integers, Sequences, FiniteSets, TLC

\* ---------------------------------------------------------------- bounds
MaxBars == 51        \* longest OHLCV series drawn
PatLen == 3          \* length of the repeating day-over-day delta pattern
MaxSyms == 3         \* longest symbol sequence handed to the aggregator
MaxPicks == 12       \* longest top_10_picks list in a candidate
MaxArticles == 11    \* most articles in a news response

\* ------------------------------------------------- extended float values
Num(n, d) == [k |-> "num", n |-> n, d |-> d]
NaN == [k |-> "nan", n |-> 0, d |-> 1]
Inf(s) == [k |-> "inf", n |-> s, d |-> 1]
\* a finite float whose magnitude the model does not track (ewm means, and
\* the Bollinger position when the band width is positive)
Fin == [k |-> "fin", n |-> 0, d |-> 1]

Sgn(x) == IF x > 0 THEN 1 ELSE IF x < 0 THEN -1 ELSE 0
Abs(x) == IF x < 0 THEN -x ELSE x

IsNaN(a) == a.k = "nan"
IsZero(a) == a.k = "num" /\ a.n = 0

FNeg(a) ==
    CASE a.k = "num" -> Num(-a.n, a.d)
      [] a.k = "inf" -> Inf(-a.n)
      [] OTHER -> a

FAdd(a, b) ==
    CASE a.k = "nan" \/ b.k = "nan" -> NaN
      [] a.k = "inf" /\ b.k = "inf" -> IF a.n = b.n THEN a ELSE NaN
      [] a.k = "inf" -> a
      [] b.k = "inf" -> b
      [] a.k = "fin" \/ b.k = "fin" -> Fin
      [] OTHER -> Num(a.n * b.d + b.n * a.d, a.d * b.d)

FSub(a, b) == FAdd(a, FNeg(b))

FMul(a, b) ==
    CASE a.k = "nan" \/ b.k = "nan" -> NaN
      [] a.k = "fin" \/ b.k = "fin" -> Fin
      [] a.k = "inf" /\ b.k = "inf" -> Inf(a.n * b.n)
      [] a.k = "inf" -> IF b.n = 0 THEN NaN ELSE Inf(a.n * Sgn(b.n))
      [] b.k = "inf" -> IF a.n = 0 THEN NaN ELSE Inf(b.n * Sgn(a.n))
      [] OTHER -> Num(a.n * b.n, a.d * b.d)

\* float64 division: x/0 is inf (nan for 0/0), never an exception
FDiv(a, b) ==
    CASE a.k = "nan" \/ b.k = "nan" -> NaN
      [] a.k = "fin" \/ b.k = "fin" -> Fin
      [] a.k = "inf" /\ b.k = "inf" -> NaN
      [] a.k = "inf" -> Inf(a.n * (IF b.n < 0 THEN -1 ELSE 1))
      [] b.k = "inf" -> Num(0, 1)
      [] b.n = 0 -> IF a.n = 0 THEN NaN ELSE Inf(Sgn(a.n))
      [] OTHER -> Num(a.n * b.d * Sgn(b.n), a.d * Abs(b.n))

\* a = n/d as exact values
FEq(a, n, d) == a.k = "num" /\ a.n * d = n * a.d
\* lo <= a <= hi for integers lo, hi
FBetween(a, lo, hi) == a.k = "num" /\ lo * a.d <= a.n /\ a.n <= hi * a.d

\* ------------------------------------------------------- python outcomes
Return(v) == [kind |-> "return", exc |-> "", val |-> v]
Raise(e) == [kind |-> "raise", exc |-> e, val |-> <<>>]
\* a return of None
ReturnNone == [kind |-> "return_none", exc |-> "", val |-> <<>>]
Returned(o) == o.kind = "return"
IsNone(o) == o.kind = "return_none"
Raised(o) == o.kind = "raise"

\* ------------------------------------------------------------ OHLCV data
RECURSIVE SumSeq(_)
SumSeq(s) == IF s = <<>> THEN 0 ELSE Head(s) + SumSeq(Tail(s))

RECURSIVE SumSq(_)
SumSq(s) == IF s = <<>> THEN 0 ELSE Head(s) * Head(s) + SumSq(Tail(s))

\* the last w elements of s (Len(s) >= w)
LastN(s, w) == SubSeq(s, Len(s) - w + 1, Len(s))

\* a data frame: the Close and Volume columns, oldest bar first
DataFrame(close, volume) == [isNone |-> FALSE, Close |-> close, Volume |-> volume]
NoneFrame == [isNone |-> TRUE, Close |-> <<>>, Volume |-> <<>>]
Empty(df) == Len(df.Close) = 0

\* pandas Series.iloc[-k]: IndexError when the series has fewer than k rows
ILocOk(s, k) == Len(s) >= k
ILoc(s, k) == s[Len(s) - k + 1]

\* ------------------------------------------------------ indicator engine
RsiWindow == 14
SmaShort == 20
SmaLong == 50
BbPeriod == 20
VolWindow == 20
Mom5 == 6
Mom20 == 21

\* delta = Close.diff(): NaN at the first row, the day-over-day change after
\* it; where(delta > 0, 0) keeps the positive changes and puts 0 elsewhere,
\* the NaN first row included
GainUnfiltered(close) == [i \in 1..Len(close) |->
    IF i > 1 THEN close[i] - close[i-1] ELSE 0]
Gain(close) == [i \in 1..Len(close) |->
    IF i > 1 /\ close[i] - close[i-1] > 0 THEN close[i] - close[i-1] ELSE 0]
Loss(close) == [i \in 1..Len(close) |->
    IF i > 1 /\ close[i] - close[i-1] < 0 THEN close[i-1] - close[i] ELSE 0]

\* Series.rolling(window=w).mean().iloc[-1]: NaN until w rows are there
RollingMeanLast(s, w) ==
    IF Len(s) < w THEN NaN ELSE Num(SumSeq(LastN(s, w)), w)

\* w*(w-1) times the sample variance of the last w rows
VarNumLast(s, w) == w * SumSq(LastN(s, w)) - SumSeq(LastN(s, w)) * SumSeq(LastN(s, w))

\* Series.ewm(span).mean().iloc[-1]: defined from the first row on
EwmMeanLast(s) == Fin

\* macd = ewm(span=12).mean() - ewm(span=26).mean()
Macd(close) == FSub(EwmMeanLast(close), EwmMeanLast(close))

RsiLast(close) ==
    LET gain == RollingMeanLast(Gain(close), RsiWindow)
        loss == RollingMeanLast(Loss(close), RsiWindow)
        rs == FDiv(gain, loss)
    IN  FSub(Num(100, 1), FDiv(Num(100, 1), FAdd(Num(1, 1), rs)))

\* (Close[-1] - bb_lower[-1]) / (bb_upper[-1] - bb_lower[-1]) with
\* bb_upper/lower = sma +/- 2*std: NaN without 20 rows, 0/0 = NaN when the
\* std is 0 (the close then equals the mean), a finite number otherwise
BbPositionLast(close) ==
    IF Len(close) < BbPeriod THEN NaN
    ELSE IF VarNumLast(close, BbPeriod) = 0
         THEN FDiv(FSub(Num(ILoc(close, 1), 1), RollingMeanLast(close, BbPeriod)),
                   Num(0, 1))
         ELSE Fin

VolumeRatio(volume) ==
    FDiv(Num(ILoc(volume, 1), 1), RollingMeanLast(volume, VolWindow))

PriceChange(close, k) ==
    FMul(FDiv(Num(ILoc(close, 1) - ILoc(close, k), 1), Num(ILoc(close, k), 1)),
         Num(100, 1))

IndicatorRecord(df) ==
    [rsi |-> RsiLast(df.Close),
     macd |-> Macd(df.Close),
     macd_signal |-> EwmMeanLast(df.Close),
     sma_20 |-> RollingMeanLast(df.Close, SmaShort),
     sma_50 |-> RollingMeanLast(df.Close, SmaLong),
     bb_position |-> BbPositionLast(df.Close),
     volume_ratio |-> VolumeRatio(df.Volume),
     price_change_5d |-> PriceChange(df.Close, Mom5),
     price_change_20d |-> PriceChange(df.Close, Mom20),
     current_price |-> Num(ILoc(df.Close, 1), 1)]

IndicatorFields == {"rsi", "macd", "macd_signal", "sma_20", "sma_50", "bb_position",
                    "volume_ratio", "price_change_5d", "price_change_20d", "current_price"}

EmptyDict == [x \in {} |-> NaN]

calculate_technical_indicators(df) ==
    IF df.isNone \/ Empty(df) THEN Return(EmptyDict)
    ELSE IF ~ILocOk(df.Close, Mom5) THEN Raise("IndexError")
    ELSE IF ~ILocOk(df.Close, Mom20) THEN Raise("IndexError")
    ELSE Return(IndicatorRecord(df))

\* ------------------------------------------------------- series drawn
BasePrice == 100
Deltas == {-1, 0, 1}
Patterns == [1..PatLen -> Deltas]
Volumes == {0, 1000, 2000}

RECURSIVE CloseSeries(_, _)
CloseSeries(n, pat) ==
    IF n = 0 THEN <<>>
    ELSE IF n = 1 THEN <<BasePrice>>
    ELSE LET prev == CloseSeries(n - 1, pat)
         IN  Append(prev, prev[n - 1] + pat[((n - 2) % PatLen) + 1])

VolumeSeries(n, vbase, vlast) ==
    [i \in 1..n |-> IF i = n THEN vlast ELSE vbase]

Frames == {NoneFrame} \cup
    {DataFrame(CloseSeries(n, pat), VolumeSeries(n, vb, vl)) :
        n \in 0..MaxBars, pat \in Patterns, vb \in {0, 1000}, vl \in Volumes}

\* ------------------------------------------------------ news sentiment
\* One article of the news response.  title and description are "missing"
\* (key absent), "null" (JSON null) or a text, named by the keywords in it:
\* "growth" holds one positive keyword, "loss" and "crisis" one negative
\* keyword, "plain" none.
Article(t, d) == [title |-> t, description |-> d]
Titles == {"missing", "null", "growth", "loss", "plain"}
Descriptions == {"missing", "null", "crisis", "plain"}
ArticleKinds == {Article(t, d) : t \in Titles, d \in Descriptions}
PlainArticles == {Article(t, "plain") : t \in {"growth", "loss", "plain"}}

PositiveCount(text) == IF text = "growth" THEN 1 ELSE 0
NegativeCount(text) == IF text \in {"loss", "crisis"} THEN 1 ELSE 0

\* article.get(key, ''): '' for a missing key, None for a JSON null
GetText(v) == IF v = "missing" THEN "" ELSE v

TopArticles == 10
TopHeadlines == 3

Prefix(s, k) == SubSeq(s, 1, IF Len(s) < k THEN Len(s) ELSE k)

\* the score appended for one article, in tenths; str + None is a TypeError
ArticleScore(a) ==
    IF GetText(a.title) = "null" \/ GetText(a.description) = "null"
    THEN Raise("TypeError")
    ELSE LET pos == PositiveCount(a.title) + PositiveCount(a.description)
             neg == NegativeCount(a.title) + NegativeCount(a.description)
         IN  Return(IF pos > neg THEN 7 ELSE IF neg > pos THEN 3 ELSE 5)

\* the behaviour of the news service for one request
NewsEnv(key, beh, arts) == [api_key |-> key, behaviour |-> beh, articles |-> arts]
Behaviours == {"connection_error", "bad_json", "not_dict", "status_error",
               "no_articles_key", "articles_null", "ok"}

DefaultSentiment == [sentiment_score |-> Num(5, 10), news_count |-> 0]

\* the body of the try block of get_stock_news_sentiment
SentimentTry(env) ==
    CASE env.behaviour = "connection_error" -> Raise("ConnectionError")
      [] env.behaviour = "bad_json" -> Raise("JSONDecodeError")
      [] env.behaviour = "status_error" -> Return(DefaultSentiment)
      [] env.behaviour = "not_dict" -> Raise("AttributeError")
      [] env.behaviour = "articles_null" -> Raise("TypeError")
      [] OTHER ->
         LET articles == IF env.behaviour = "no_articles_key" THEN <<>> ELSE env.articles
             top == Prefix(articles, TopArticles)
             scores == [i \in 1..Len(top) |-> ArticleScore(top[i])]
             heads == Prefix(articles, TopHeadlines)
         IN  IF \E i \in 1..Len(top) : Raised(scores[i]) THEN Raise("TypeError")
             ELSE IF \E i \in 1..Len(heads) : heads[i].title = "missing"
                  THEN Raise("KeyError")
             ELSE Return([sentiment_score |->
                              IF Len(top) = 0 THEN Num(5, 10)
                              ELSE Num(SumSeq([i \in 1..Len(top) |-> scores[i].val]),
                                       10 * Len(top)),
                          news_count |-> Len(articles),
                          recent_headlines |-> [i \in 1..Len(heads) |-> heads[i].title]])

\* except Exception: return the neutral record
SentimentExceptNarrow(o) ==
    IF Raised(o) /\ o.exc = "ConnectionError" THEN Return(DefaultSentiment) ELSE o
SentimentExcept(o) == IF Raised(o) THEN Return(DefaultSentiment) ELSE o

get_stock_news_sentiment(symbol, company_name, env) ==
    IF ~env.api_key THEN Return(DefaultSentiment)
    ELSE SentimentExcept(SentimentTry(env))

\* the article lists drawn: n articles of one kind, one of them replaced
ArticleList(n, base, p, special) == [i \in 1..n |-> IF i = p THEN special ELSE base]
ArticleLists == {ArticleList(n, base, p, special) :
    n \in 0..MaxArticles, base \in PlainArticles, p \in 0..MaxArticles,
    special \in ArticleKinds}
NewsEnvs == {NewsEnv(key, beh, <<>>) : key \in BOOLEAN, beh \in Behaviours \ {"ok"}}
    \cup {NewsEnv(key, "ok", arts) : key \in BOOLEAN, arts \in ArticleLists}

\* ---------------------------------------------------------- aggregator
\* What the data source and the news service do for one symbol: yfinance
\* raises, or hands back a history and the info mapping ("none": None,
\* "named": a mapping with longName, marketCap and sector).
Fetch(raises, hist, info, env) == [raises |-> raises, hist |-> hist, info |-> info, news |-> env]

\* get_stock_data: (hist, info), or (None, None) on any exception
get_stock_data(f) ==
    IF f.raises THEN [hist |-> NoneFrame, info |-> "none"]
    ELSE [hist |-> f.hist, info |-> f.info]

AnalysisRecord(symbol, info, technical_data, news_data) ==
    [symbol |-> symbol,
     company_name |-> IF info = "named" THEN <<"longName", symbol>> ELSE <<symbol>>,
     analysis_date |-> "today",
     technical_indicators |-> technical_data,
     sentiment |-> news_data,
     market_cap |-> IF info = "named" THEN 1 ELSE 0,
     sector |-> IF info = "named" THEN "sector" ELSE "Unknown"]

\* the guard of analyze_stock on the fetched history
NoHistoryUnguarded(hist) == FALSE
NoHistory(hist) == hist.isNone \/ Empty(hist)

analyze_stock(symbol, f) ==
    LET data == get_stock_data(f)
        technical_data == calculate_technical_indicators(data.hist)
        company_name == IF data.info = "named" THEN <<"longName", symbol>> ELSE <<symbol>>
        news_data == get_stock_news_sentiment(symbol, company_name, f.news)
    IN  IF NoHistory(data.hist) THEN ReturnNone
        ELSE IF Raised(technical_data) THEN technical_data
        ELSE IF Raised(news_data) THEN news_data
        ELSE Return(AnalysisRecord(symbol, data.info, technical_data.val, news_data.val))

\* results.append(result)
AppendResultFront(res, rec) == <<rec>> \o res
AppendResult(res, rec) == Append(res, rec)

\* one iteration of the loop of analyze_multiple_stocks: append a truthy
\* result, skip None, log and continue on an exception
LoopBody(res, symbol, f) ==
    LET result == analyze_stock(symbol, f)
    IN  IF Returned(result) THEN AppendResult(res, result.val) ELSE res

Symbols == {"A", "B", "C"}
SymbolSeqs == UNION {[1..n -> Symbols] : n \in 0..MaxSyms}

FlatPattern == [i \in 1..PatLen |-> 0]
ShortBars == 5
EnoughBars == 25
AggFrame(n) == DataFrame(CloseSeries(n, FlatPattern), VolumeSeries(n, 1000, 1000))
Fetches ==
    {Fetch(TRUE, NoneFrame, "none", NewsEnv(FALSE, "ok", <<>>)),
     Fetch(FALSE, AggFrame(0), "none", NewsEnv(FALSE, "ok", <<>>)),
     Fetch(FALSE, AggFrame(ShortBars), "named", NewsEnv(FALSE, "ok", <<>>)),
     Fetch(FALSE, AggFrame(EnoughBars), "none", NewsEnv(FALSE, "ok", <<>>)),
     Fetch(FALSE, AggFrame(EnoughBars), "named",
           NewsEnv(TRUE, "ok", <<Article("growth", "plain")>>))}

\* ----------------------------------------------------------- validator
\* A value handed to float(): "missing" (key absent, the default 0 is
\* used), a number, a numeric string, the string "N/A" or a JSON null.
Price(t, v) == [t |-> t, v |-> v]
Float(p) ==
    CASE p.t = "missing" -> Return(0)
      [] p.t = "num" -> Return(p.v)
      [] p.t = "numstr" -> Return(p.v)
      [] p.t = "N/A" -> Raise("ValueError")
      [] OTHER -> Raise("TypeError")

\* pick.get(key, default) for the keys passed through unchanged
GetOr(v, default) == IF v = "missing" THEN default ELSE v

\* One pick of the ranking response; isDict is FALSE for a list element
\* that is no JSON object.  rank 0, key_reasons <<"missing">> and the
\* text "missing" stand for an absent key.
Pick(isDict, rank, tp, cs, reasons, label) ==
    [isDict |-> isDict, rank |-> rank, symbol |-> rank,
     company_name |-> IF label = "missing" THEN "missing" ELSE "name",
     recommendation |-> label,
     target_price |-> tp, confidence_score |-> cs, key_reasons |-> reasons,
     risk_level |-> IF label = "missing" THEN "missing" ELSE "LOW",
     time_horizon |-> IF label = "missing" THEN "missing" ELSE "1-7 days",
     expected_return |-> IF label = "missing" THEN "missing" ELSE "5%"]

ValidatedPick(pick) ==
    [rank |-> pick.rank,
     symbol |-> pick.symbol,
     company_name |-> GetOr(pick.company_name, ""),
     recommendation |-> GetOr(pick.recommendation, "HOLD"),
     target_price |-> Float(pick.target_price).val,
     confidence_score |-> Float(pick.confidence_score).val,
     key_reasons |-> IF pick.key_reasons = <<"missing">> THEN <<>> ELSE pick.key_reasons,
     risk_level |-> GetOr(pick.risk_level, "MEDIUM"),
     time_horizon |-> GetOr(pick.time_horizon, "1-3 days"),
     expected_return |-> GetOr(pick.expected_return, "0%")]

Coercible(pick) ==
    Returned(Float(pick.target_price)) /\ Returned(Float(pick.confidence_score))

MaxValidated == 10

\* the loop of validate_recommendations over top_10_picks[:10]
RECURSIVE ValidatedPicks(_)
ValidatedPicks(picks) ==
    IF picks = <<>> THEN <<>>
    ELSE IF Coercible(Head(picks))
         THEN <<ValidatedPick(Head(picks))>> \o ValidatedPicks(Tail(picks))
         ELSE ValidatedPicks(Tail(picks))

\* for pick in recommendations['top_10_picks'][:10]: the slice is taken
\* first, the picks that cannot be coerced are skipped after it
ValidateLoopDropFirst(picks) == Prefix(ValidatedPicks(picks), MaxValidated)
ValidateLoop(picks) == ValidatedPicks(Prefix(picks, MaxValidated))

\* whether the name stock_data, read by the return statement, is bound in
\* the scope of validate_recommendations (it is neither a parameter nor a
\* module global)
StockDataBound == FALSE

RecommendationSet(picks) ==
    [top_10_picks |-> picks, market_overview |-> "overview",
     top_sectors |-> <<"sector">>, key_risks |-> <<"risk">>, analysis_timestamp |-> ""]

\* A candidate: None, {} , a mapping without top_10_picks, one whose
\* top_10_picks is null, or one with a list of picks.
Candidate(shape, picks) == [shape |-> shape, picks |-> picks]
HasPicksField(c) == c.shape \in {"picks", "picks_null"}

validate_recommendations(c) ==
    IF ~HasPicksField(c) THEN ReturnNone
    ELSE IF c.shape = "picks_null" THEN Raise("TypeError")
    ELSE LET top == Prefix(c.picks, MaxValidated)
         IN  IF \E i \in 1..Len(top) : ~top[i].isDict THEN Raise("AttributeError")
             ELSE IF ~StockDataBound THEN Raise("NameError")
             ELSE Return(RecommendationSet(ValidateLoop(c.picks)))

\* the local list validated_picks when validate_recommendations is left: a
\* pick that is no mapping ends the loop with AttributeError
ValidatedPicksAtExit(c) ==
    IF c.shape # "picks" THEN <<>>
    ELSE LET top == Prefix(c.picks, MaxValidated)
             odd == {i \in 1..Len(top) : ~top[i].isDict}
         IN  IF odd = {} THEN ValidateLoop(c.picks)
             ELSE ValidatedPicks(SubSeq(top, 1,
                      (CHOOSE i \in odd : \A j \in odd : i <= j) - 1))

\* the picks drawn: n picks ranked ascending or descending, well formed but
\* for the one at position p
GoodPick(rank) == Pick(TRUE, rank, Price("num", 100 + rank), Price("num", 8),
                       <<"r1", "r2", "r3">>, "BUY")
OddPicks(rank) ==
    {Pick(TRUE, rank, Price("N/A", 0), Price("num", 8), <<"r1">>, "BUY"),
     Pick(TRUE, rank, Price("num", 100 + rank), Price("null", 0), <<"missing">>, "BUY"),
     Pick(TRUE, rank, Price("numstr", 100 + rank), Price("missing", 0), <<"missing">>,
          "missing"),
     Pick(TRUE, rank, Price("num", 100 + rank), Price("num", 8),
          Prefix(<<"r1", "r2", "r3", "r4">>, rank % 5), "BUY"),
     Pick(FALSE, rank, Price("missing", 0), Price("missing", 0), <<"missing">>, "missing")}
RankAt(n, i, asc) == IF asc THEN i ELSE n + 1 - i
PickLists ==
    {[i \in 1..n |-> GoodPick(RankAt(n, i, asc))] : n \in 0..MaxPicks, asc \in BOOLEAN}
    \cup UNION {{[i \in 1..n |-> IF i = p THEN odd ELSE GoodPick(RankAt(n, i, asc))] :
                    odd \in OddPicks(RankAt(n, p, asc))} :
               n \in 1..MaxPicks, p \in 1..MaxPicks, asc \in BOOLEAN}
Candidates ==
    {Candidate(sh, <<>>) : sh \in {"None", "empty_dict", "no_picks", "picks_null"}}
    \cup {Candidate("picks", picks) : picks \in PickLists}

\* ------------------------------------------------------ ranking call
\* What the Groq call does: the API raises, the text holds no '{', the
\* text between the braces is no JSON, or it parses to a mapping.
Groq(kind, parsed) == [kind |-> kind, parsed |-> parsed]
GroqResponses ==
    {Groq(k, Candidate("empty_dict", <<>>)) : k \in {"api_error", "no_json", "bad_json"}}
    \cup {Groq("parsed", c) : c \in Candidates \ {Candidate("None", <<>>)}}

get_stock_recommendationsUnchecked(stock_data, g) ==
    IF stock_data = <<>> THEN ReturnNone
    ELSE IF g.kind # "parsed" THEN ReturnNone
    ELSE Return(g.parsed)

\* None on an empty input, on any exception (len() of a null top_10_picks
\* included), on text without JSON and on a mapping without top_10_picks
get_stock_recommendations(stock_data, g) ==
    IF stock_data = <<>> THEN ReturnNone
    ELSE IF g.kind # "parsed" THEN ReturnNone
    ELSE IF ~HasPicksField(g.parsed) THEN ReturnNone
    ELSE IF g.parsed.shape = "picks_null" THEN ReturnNone
    ELSE Return(g.parsed)

\* the API is called once, after the guard on an empty input
GroqCallCount(stock_data) == IF stock_data = <<>> THEN 0 ELSE 1

\* ------------------------------------------------------------ publisher
Headers == <<"Date", "Rank", "Symbol", "Company Name", "Recommendation",
             "Target Price", "Confidence Score", "Risk Level", "Expected Return",
             "Time Horizon", "Key Reason 1", "Key Reason 2", "Key Reason 3">>

ReasonColumns == 3

\* while len(reasons) < 3: reasons.append('')
PadReasonsFront(reasons) ==
    IF Len(reasons) < ReasonColumns THEN <<"", "", "">> \o reasons ELSE reasons
RECURSIVE PadReasons(_)
PadReasons(reasons) ==
    IF Len(reasons) < ReasonColumns THEN PadReasons(Append(reasons, "")) ELSE reasons

PickRow(pick) ==
    LET reasons == PadReasons(pick.key_reasons)
    IN  <<"now", pick.rank, pick.symbol, pick.company_name, pick.recommendation,
          pick.target_price, pick.confidence_score, pick.risk_level,
          pick.expected_return, pick.time_horizon,
          reasons[1], reasons[2], reasons[3]>>

SingleRows(items) == [i \in 1..Len(items) |-> <<items[i]>>]

\* the argument is a validate_recommendations outcome: anything but a
\* returned set is None here
format_recommendations_for_sheets(o) ==
    IF ~Returned(o) THEN <<>>
    ELSE <<Headers>>
         \o [i \in 1..Len(o.val.top_10_picks) |-> PickRow(o.val.top_10_picks[i])]
         \o << <<>>, <<"MARKET OVERVIEW">>, <<o.val.market_overview>>, <<>>,
               <<"TOP SECTORS">> >>
         \o SingleRows(o.val.top_sectors)
         \o << <<>>, <<"KEY RISKS">> >>
         \o SingleRows(o.val.key_risks)

OldRows == << <<"old">> >>

\* values().update at A1: the rows written replace the rows at the top
Overlay(new, old) ==
    [i \in 1..(IF Len(new) > Len(old) THEN Len(new) ELSE Len(old)) |->
        IF i <= Len(new) THEN new[i] ELSE old[i]]

\* the set a candidate is validated to, as update_sheet is handed it
SheetArg(c) ==
    IF c.shape # "picks" THEN ReturnNone
    ELSE Return(RecommendationSet(ValidateLoop(c.picks)))
SheetCandidates ==
    {Candidate("None", <<>>)} \cup
    {Candidate("picks", pl) : pl \in {q \in PickLists : \A i \in 1..Len(q) : q[i].isDict}}

\* ------------------------------------------------------- orchestration
\* get_uk_stock_symbols: the configured list
UkStocks == <<"A", "B", "C">>

\* run_daily_analysis after validate_recommendations: an exception reaches
\* the outer except, a falsy value returns False, a set goes to update_sheet
AfterValidateAlwaysPublish(o) == "update_sheet"
AfterValidateNoExcept(o) ==
    IF Returned(o) THEN "update_sheet" ELSE IF Raised(o) THEN "raised" ELSE "done"
AfterValidate(o) == IF Returned(o) THEN "update_sheet" ELSE "done"

\* if success: return True else: return False
RunResult(ok) == ok

\* update_sheet after apply_formatting, whose exceptions are logged and
\* swallowed: return True
AfterFormattingPropagates(ok) == ok
AfterFormatting(ok) == TRUE

\* ------------------------------------------------------------- state
VARIABLES
    pc,              \* control location of the operation in progress
    op,              \* the operation that was called
    df,              \* argument of calculate_technical_indicators
    indicators,      \* its outcome
    news,            \* behaviour of the news service
    sentiment,       \* outcome of get_stock_news_sentiment
    symbols,         \* argument of analyze_multiple_stocks
    idx,             \* position of the loop over symbols
    results,         \* the results list of analyze_multiple_stocks
    fetched,         \* what the data source and the news service did per symbol
    candidate,       \* argument of validate_recommendations
    validated,       \* its outcome
    recommendations, \* outcome of get_stock_recommendations
    sheet,           \* content of the worksheet
    calls,           \* sheet API calls issued, in order
    ret,             \* value returned to the caller
    success,         \* value returned by update_sheet
    validated_picks, \* the validated_picks list of validate_recommendations
    groq_calls,      \* number of calls of the Groq API
    response         \* what the Groq API did in get_stock_recommendations

vars == <<pc, op, df, indicators, news, sentiment, symbols, idx, results, fetched,
          candidate, validated, recommendations, sheet, calls, ret,
          success, validated_picks, groq_calls, response>>

NoOutcome == [kind |-> "unset", exc |-> "", val |-> <<>>]
NoNews == NewsEnv(FALSE, "ok", <<>>)

\* the variables of the operations not in progress
IdleInd == df = NoneFrame /\ indicators = NoOutcome
IdleNews == news = NoNews /\ sentiment = NoOutcome
IdleAgg == symbols = <<>> /\ idx = 0 /\ results = <<>> /\ fetched = <<>>
IdleVal == candidate = NoOutcome /\ validated = NoOutcome /\ validated_picks = <<>>
\* no call of the Groq API yet
NoResponse == Groq("none", Candidate("None", <<>>))

IdleRun ==
    /\ recommendations = NoOutcome /\ sheet = OldRows /\ calls = <<>> /\ ret = NoOutcome
    /\ success = NoOutcome /\ groq_calls = 0 /\ response = NoResponse

\* ------------------------------------------- indicator engine, applied
InitInd ==
    /\ pc = "call" /\ op = "calculate_technical_indicators"
    /\ df \in Frames /\ indicators = NoOutcome
    /\ IdleNews /\ IdleAgg /\ IdleVal /\ IdleRun

Calculate ==
    /\ pc = "call" /\ op = "calculate_technical_indicators"
    /\ indicators' = calculate_technical_indicators(df)
    /\ pc' = "done"
    /\ UNCHANGED <<op, df, news, sentiment, symbols, idx, results, fetched,
                   candidate, validated, recommendations, sheet, calls, ret,
                   success, validated_picks, groq_calls, response>>

NextInd == Calculate
SpecInd == InitInd /\ [][NextInd]_vars

\* ----------------------------------------------- news sentiment, applied
InitNews ==
    /\ pc = "call" /\ op = "get_stock_news_sentiment"
    /\ news \in NewsEnvs /\ sentiment = NoOutcome
    /\ IdleInd /\ IdleAgg /\ IdleVal /\ IdleRun

Estimate ==
    /\ pc = "call" /\ op = "get_stock_news_sentiment"
    /\ sentiment' = get_stock_news_sentiment("A", "A", news)
    /\ pc' = "done"
    /\ UNCHANGED <<op, df, indicators, news, symbols, idx, results, fetched,
                   candidate, validated, recommendations, sheet, calls, ret,
                   success, validated_picks, groq_calls, response>>

NextNews == Estimate
SpecNews == InitNews /\ [][NextNews]_vars

\* ------------------------------------------------- aggregator, applied
InitAgg ==
    /\ pc = "idle" /\ op = "analyze_multiple_stocks"
    /\ IdleInd /\ IdleNews /\ IdleAgg /\ IdleVal /\ IdleRun

\* analyze_multiple_stocks(symbols) is called
AnalyzeCall ==
    /\ pc = "idle" /\ op = "analyze_multiple_stocks"
    /\ \E syms \in SymbolSeqs : symbols' = syms
    /\ idx' = 1 /\ results' = <<>> /\ fetched' = <<>>
    /\ pc' = "loop"
    /\ UNCHANGED <<op, df, indicators, news, sentiment, candidate, validated,
                   recommendations, sheet, calls, ret,
                   success, validated_picks, groq_calls, response>>

\* one iteration: the symbol at idx is fetched and analyzed
AnalyzeNext ==
    /\ pc = "loop" /\ idx <= Len(symbols)
    /\ \E f \in Fetches :
          /\ results' = LoopBody(results, symbols[idx], f)
          /\ fetched' = Append(fetched, f)
    /\ idx' = idx + 1
    /\ UNCHANGED <<pc, op, df, indicators, news, sentiment, symbols, candidate,
                   validated, recommendations, sheet, calls, ret,
                   success, validated_picks, groq_calls, response>>

\* return results
AnalyzeReturn ==
    /\ pc = "loop" /\ idx > Len(symbols)
    /\ op = "analyze_multiple_stocks"
    /\ ret' = Return(results)
    /\ pc' = "done"
    /\ UNCHANGED <<op, df, indicators, news, sentiment, symbols, idx, results, fetched,
                   candidate, validated, recommendations, sheet, calls,
                   success, validated_picks, groq_calls, response>>

NextAgg == AnalyzeCall \/ AnalyzeNext \/ AnalyzeReturn
SpecAgg == InitAgg /\ [][NextAgg]_vars

\* -------------------------------------------------- validator, applied
InitVal ==
    /\ pc = "call" /\ op = "validate_recommendations"
    /\ candidate \in Candidates /\ validated = NoOutcome /\ validated_picks = <<>>
    /\ IdleInd /\ IdleNews /\ IdleAgg /\ IdleRun

Validate ==
    /\ pc = "call" /\ op = "validate_recommendations"
    /\ validated' = validate_recommendations(candidate)
    /\ validated_picks' = ValidatedPicksAtExit(candidate)
    /\ pc' = "done"
    /\ UNCHANGED <<op, df, indicators, news, sentiment, symbols, idx, results, fetched,
                   candidate, recommendations, sheet, calls, ret,
                   success, groq_calls, response>>

NextVal == Validate
SpecVal == InitVal /\ [][NextVal]_vars

\* ------------------------------------ get_stock_recommendations, applied
\* the stock_data lists handed over: empty, or the records of analysed symbols
StockDataLists ==
    {<<>>} \cup
    {<<analyze_stock(s, f).val>> :
        s \in Symbols, f \in {x \in Fetches : Returned(analyze_stock("A", x))}}

InitRank ==
    /\ pc = "call" /\ op = "get_stock_recommendations"
    /\ results \in StockDataLists
    /\ symbols = <<>> /\ idx = 0 /\ fetched = <<>> /\ ret = NoOutcome
    /\ IdleInd /\ IdleNews /\ IdleVal /\ IdleRun

Rank ==
    /\ pc = "call" /\ op = "get_stock_recommendations"
    /\ \E g \in GroqResponses :
          /\ response' = g
          /\ recommendations' = get_stock_recommendations(results, g)
    /\ groq_calls' = groq_calls + GroqCallCount(results)
    /\ pc' = "done"
    /\ UNCHANGED <<op, df, indicators, news, sentiment, symbols, idx, results, fetched,
                   candidate, validated, sheet, calls, ret,
                   success, validated_picks>>

NextRank == Rank
SpecRank == InitRank /\ [][NextRank]_vars

\* ---------------------------------- run_daily_analysis and update_sheet
InitRun ==
    /\ pc = "idle" /\ op \in {"run_daily_analysis", "update_sheet"}
    /\ IdleInd /\ IdleNews /\ IdleAgg /\ IdleVal /\ IdleRun

\* steps 1 and 2: the symbols are read and handed to analyze_multiple_stocks
RunCall ==
    /\ pc = "idle" /\ op = "run_daily_analysis"
    /\ symbols' = UkStocks
    /\ idx' = 1 /\ results' = <<>> /\ fetched' = <<>>
    /\ pc' = "loop"
    /\ UNCHANGED <<op, df, indicators, news, sentiment, candidate, validated,
                   recommendations, sheet, calls, ret,
                   success, validated_picks, groq_calls, response>>

\* analyze_multiple_stocks returned: no results, return False
RunAnalyzed ==
    /\ pc = "loop" /\ idx > Len(symbols)
    /\ op = "run_daily_analysis"
    /\ fetched' = <<>>
    /\ IF results = <<>>
       THEN ret' = Return(FALSE) /\ pc' = "done"
       ELSE ret' = ret /\ pc' = "rank"
    /\ UNCHANGED <<op, df, indicators, news, sentiment, symbols, idx, results,
                   candidate, validated, recommendations, sheet, calls,
                   success, validated_picks, groq_calls, response>>

\* step 3: get_stock_recommendations; a falsy value returns False
RunRank ==
    /\ pc = "rank"
    /\ \E g \in GroqResponses :
          LET r == get_stock_recommendations(results, g)
          IN  /\ recommendations' = r
              /\ response' = g
              /\ IF IsNone(r)
                 THEN ret' = Return(FALSE) /\ pc' = "done"
                 ELSE ret' = ret /\ pc' = "validate"
    /\ groq_calls' = groq_calls + GroqCallCount(results)
    /\ UNCHANGED <<op, df, indicators, news, sentiment, symbols, idx, results, fetched,
                   candidate, validated, sheet, calls,
                   success, validated_picks>>

\* step 4: validate_recommendations
RunValidate ==
    /\ pc = "validate"
    /\ candidate' = recommendations.val
    /\ LET v == validate_recommendations(recommendations.val)
       IN  /\ validated' = v
           /\ pc' = AfterValidate(v)
           /\ ret' = IF AfterValidate(v) = "done" THEN Return(FALSE) ELSE ret
    /\ validated_picks' = ValidatedPicksAtExit(recommendations.val)
    /\ UNCHANGED <<op, df, indicators, news, sentiment, symbols, idx, results, fetched,
                   recommendations, sheet, calls,
                   success, groq_calls, response>>

\* update_sheet(recommendations) is called on its own
UpdateSheetCall ==
    /\ pc = "idle" /\ op = "update_sheet"
    /\ \E c \in SheetCandidates :
          /\ candidate' = c
          /\ validated' = SheetArg(c)
    /\ pc' = "update_sheet"
    /\ UNCHANGED <<op, df, indicators, news, sentiment, symbols, idx, results, fetched,
                   recommendations, sheet, calls, ret,
                   success, validated_picks, groq_calls, response>>

\* create_worksheet_if_not_exists: exceptions are logged and swallowed
SheetCreate ==
    /\ pc = "update_sheet"
    /\ \E api \in {"exists", "absent", "error"} :
          calls' = CASE api = "absent" -> calls \o <<"get", "addSheet">>
                     [] api = "error" -> Append(calls, "get:error")
                     [] OTHER -> Append(calls, "get")
    /\ pc' = "clear"
    /\ UNCHANGED <<op, df, indicators, news, sentiment, symbols, idx, results, fetched,
                   candidate, validated, recommendations, sheet, ret,
                   success, validated_picks, groq_calls, response>>

\* clear_existing_data: exceptions are logged and swallowed
SheetClear ==
    /\ pc = "clear"
    /\ \E ok \in BOOLEAN :
          /\ sheet' = IF ok THEN <<>> ELSE sheet
          /\ calls' = Append(calls, IF ok THEN "clear" ELSE "clear:error")
    /\ pc' = "write"
    /\ UNCHANGED <<op, df, indicators, news, sentiment, symbols, idx, results, fetched,
                   candidate, validated, recommendations, ret,
                   success, validated_picks, groq_calls, response>>

\* the rows are formatted; none: return False; else values().update, whose
\* exception returns False
SheetWrite ==
    /\ pc = "write"
    /\ LET data_rows == format_recommendations_for_sheets(validated)
       IN  IF data_rows = <<>>
           THEN /\ success' = Return(FALSE) /\ ret' = Return(FALSE) /\ pc' = "done"
                /\ calls' = Append(calls, "format")
                /\ sheet' = sheet
           ELSE \E ok \in BOOLEAN :
                /\ calls' = calls \o <<"format", IF ok THEN "update" ELSE "update:error">>
                /\ sheet' = IF ok THEN Overlay(data_rows, sheet) ELSE sheet
                /\ success' = IF ok THEN success ELSE Return(FALSE)
                /\ ret' = IF ok THEN ret ELSE Return(RunResult(FALSE))
                /\ pc' = IF ok THEN "format" ELSE "done"
    /\ UNCHANGED <<op, df, indicators, news, sentiment, symbols, idx, results, fetched,
                   candidate, validated, recommendations, validated_picks, groq_calls, response>>

\* apply_formatting (exceptions swallowed), then return True; the run logs
\* the summary and returns True as well
SheetFormat ==
    /\ pc = "format"
    /\ \E ok \in BOOLEAN :
          /\ calls' = calls \o <<"get", "get",
                                IF ok THEN "batchUpdate" ELSE "batchUpdate:error">>
          /\ success' = Return(AfterFormatting(ok))
          /\ ret' = Return(RunResult(AfterFormatting(ok)))
    /\ pc' = "done"
    /\ UNCHANGED <<op, df, indicators, news, sentiment, symbols, idx, results, fetched,
                   candidate, validated, recommendations, sheet,
                   validated_picks, groq_calls, response>>

NextRun ==
    \/ RunCall \/ AnalyzeNext \/ RunAnalyzed \/ RunRank \/ RunValidate
    \/ UpdateSheetCall \/ SheetCreate \/ SheetClear \/ SheetWrite \/ SheetFormat
SpecRun == InitRun /\ [][NextRun]_vars

\* =========================================================== properties

\* the records of the symbols whose analysis returned one, in input order
RECURSIVE SucceededRecords(_, _)
SucceededRecords(syms, fs) ==
    IF syms = <<>> \/ fs = <<>> THEN <<>>
    ELSE LET o == analyze_stock(Head(syms), Head(fs))
         IN  (IF Returned(o) THEN <<o.val>> ELSE <<>>)
             \o SucceededRecords(Tail(syms), Tail(fs))

InAggregator == op = "analyze_multiple_stocks" /\ pc \in {"loop", "done"}

\* C1: analyze_multiple_stocks returns exactly the records of the symbols
\* that succeeded, in input order; every symbol is fetched once, whatever
\* happened to the symbols before it, and a failure never ends the loop.
C1_SuccessesInInputOrder ==
    /\ InAggregator =>
          /\ Len(fetched) = idx - 1
          /\ results = SucceededRecords(symbols, fetched)
    /\ (op = "analyze_multiple_stocks" /\ pc = "done") =>
          /\ Len(fetched) = Len(symbols)
          /\ ret = Return(SucceededRecords(symbols, fetched))

\* [A, B, C] with B failing gives [A's record, C's record]
C1_Witness ==
    /\ op = "analyze_multiple_stocks" /\ pc = "done"
    /\ symbols = <<"A", "B", "C">>
    /\ Returned(analyze_stock("A", fetched[1]))
    /\ ~Returned(analyze_stock("B", fetched[2]))
    /\ Returned(analyze_stock("C", fetched[3]))
    /\ Len(ret.val) = 2 /\ ret.val[1].symbol = "A" /\ ret.val[2].symbol = "C"

\* C2: for every series with at least one bar calculate_technical_indicators
\* returns a record holding all ten fields; it never raises.
C2_NeverRaisesForShortSeries ==
    (op = "calculate_technical_indicators" /\ pc = "done"
        /\ ~df.isNone /\ Len(df.Close) >= 1) =>
       /\ Returned(indicators)
       /\ DOMAIN indicators.val = IndicatorFields

\* C3: in a returned indicator record, an indicator whose rolling window is
\* longer than the series is exactly 0 (not NaN).
C3_ShortWindowYieldsZero ==
    (op = "calculate_technical_indicators" /\ pc = "done"
        /\ Returned(indicators) /\ DOMAIN indicators.val = IndicatorFields) =>
       /\ Len(df.Close) < RsiWindow => IsZero(indicators.val.rsi)
       /\ Len(df.Close) < SmaShort => IsZero(indicators.val.sma_20)
       /\ Len(df.Close) < BbPeriod => IsZero(indicators.val.bb_position)
       /\ Len(df.Close) < VolWindow => IsZero(indicators.val.volume_ratio)
       /\ Len(df.Close) < SmaLong => IsZero(indicators.val.sma_50)

\* the positions whose fetch handed back a non-empty history
WithHistory == {i \in 1..Len(fetched) : ~NoHistory(get_stock_data(fetched[i]).hist)}

\* C4: a symbol whose fetched series is non-empty is not treated as a
\* failure, however short the series: every such symbol has its record in
\* the list analyze_multiple_stocks returns.
C4_ShortHistoryStillEmitted ==
    (op = "analyze_multiple_stocks" /\ pc = "done") =>
       Len(ret.val) = Cardinality(WithHistory)

\* C5: every record in the results of analyze_multiple_stocks has a
\* non-empty technical_indicators mapping, and a symbol whose fetch gave
\* None or an empty series contributes no record.
C5_RecordsHaveIndicators ==
    InAggregator =>
       /\ \A j \in 1..Len(results) : DOMAIN results[j].technical_indicators # {}
       /\ Len(results) <= Cardinality(WithHistory)

C5_Witness ==
    /\ op = "analyze_multiple_stocks" /\ pc = "done"
    /\ Len(fetched) = 3
    /\ fetched[1].raises
    /\ ~fetched[2].raises /\ Empty(fetched[2].hist)
    /\ Len(ret.val) = 1
    /\ DOMAIN ret.val[1].technical_indicators = IndicatorFields

ValidatedCall == op = "validate_recommendations" /\ pc = "done"
WellFormed(pick) == pick.isDict /\ Coercible(pick)

\* C6: a candidate with more than 10 well-formed picks yields a set whose
\* top_10_picks are the first 10 picks of the input, in input order.
C6_TruncatesToFirstTen ==
    (ValidatedCall /\ candidate.shape = "picks" /\ Len(candidate.picks) > MaxValidated
        /\ \A i \in 1..Len(candidate.picks) : WellFormed(candidate.picks[i])) =>
       /\ Returned(validated)
       /\ validated.val.top_10_picks =
             [i \in 1..MaxValidated |-> ValidatedPick(candidate.picks[i])]

\* the positions among the first 10 whose price or score cannot be coerced
BadPositions(picks) ==
    {i \in 1..Len(Prefix(picks, MaxValidated)) : picks[i].isDict /\ ~Coercible(picks[i])}

\* C7: a candidate in which one pick has a non-numeric target_price or
\* confidence_score yields a set that omits exactly that pick and keeps the
\* other picks of the first 10 in their order.
C7_DropsOnlyTheBadPick ==
    (ValidatedCall /\ candidate.shape = "picks"
        /\ \A i \in 1..Len(candidate.picks) : candidate.picks[i].isDict
        /\ Cardinality(BadPositions(candidate.picks)) = 1) =>
       LET top == Prefix(candidate.picks, MaxValidated)
           p == CHOOSE i \in BadPositions(candidate.picks) : TRUE
       IN  /\ Returned(validated)
           /\ validated.val.top_10_picks =
                 [i \in 1..(Len(top) - 1) |->
                     ValidatedPick(IF i < p THEN top[i] ELSE top[i + 1])]

\* C8: validate_recommendations returns None or raises only for a candidate
\* without a top_10_picks field; with the field it returns a set.
C8_FailsOnlyWithoutPicksField ==
    ValidatedCall =>
       (HasPicksField(candidate) <=> Returned(validated))

\* C9: in run_daily_analysis, when get_stock_recommendations returned None
\* or validate_recommendations returned None or raised, update_sheet is not
\* called: no sheet call is issued, the sheet is as it was and the run
\* returns False.
C9_NoPublishOnMalformed ==
    (op = "run_daily_analysis"
        /\ (IsNone(recommendations) \/ IsNone(validated) \/ Raised(validated))) =>
       /\ calls = <<>>
       /\ sheet = OldRows
       /\ pc = "done"
       /\ ret = Return(FALSE)

C9_Witness ==
    /\ op = "run_daily_analysis" /\ pc = "done"
    /\ results # <<>>
    /\ IsNone(recommendations)
    /\ calls = <<>> /\ ret = Return(FALSE)

\* the request failed: no API key, a status other than 200, or an exception
\* inside the try block
NewsFailed(env) ==
    \/ ~env.api_key
    \/ env.behaviour = "status_error"
    \/ Raised(SentimentTry(env))

IsDefaultSentiment(rec) ==
    /\ DOMAIN rec = {"sentiment_score", "news_count"}
    /\ FEq(rec.sentiment_score, 1, 2)
    /\ rec.news_count = 0

\* C10: get_stock_news_sentiment always returns a record with
\* sentiment_score in [0, 1] and news_count >= 0, and on any failure that
\* record is exactly {sentiment_score 0.5, news_count 0}.
C10_SentimentNeverFails ==
    (op = "get_stock_news_sentiment" /\ pc = "done") =>
       /\ Returned(sentiment)
       /\ FBetween(sentiment.val.sentiment_score, 0, 1)
       /\ sentiment.val.news_count >= 0
       /\ NewsFailed(news) => IsDefaultSentiment(sentiment.val)

\* a 200 response with a malformed article
C10_Witness ==
    /\ op = "get_stock_news_sentiment" /\ pc = "done"
    /\ news.api_key /\ news.behaviour = "ok"
    /\ Raised(SentimentTry(news))
    /\ IsDefaultSentiment(sentiment.val)

\* a boolean outcome
IsTrue(o) == Returned(o) /\ o.val = TRUE
IsFalse(o) == Returned(o) /\ o.val = FALSE

\* the values().update calls issued so far
UpdateCalls == {i \in DOMAIN calls : calls[i] \in {"update", "update:error"}}

RunLocations ==
    {"idle", "loop", "rank", "validate", "update_sheet", "clear", "write",
     "format", "done"}

\* C11: run_daily_analysis never raises and leaves with a boolean; True only
\* if update_sheet was called and returned True, False whenever the publish
\* step failed, and the publish call is issued at most once.
C11_RunReportsBoolean ==
    op = "run_daily_analysis" =>
       /\ pc \in RunLocations
       /\ pc = "done" => (IsTrue(ret) \/ IsFalse(ret))
       /\ IsTrue(ret) => (IsTrue(success) /\ UpdateCalls # {})
       /\ (pc = "done" /\ IsFalse(success)) => IsFalse(ret)
       /\ Cardinality(UpdateCalls) <= 1

\* an exception raised inside the run is caught and reported as False
C11_Witness ==
    /\ op = "run_daily_analysis" /\ pc = "done"
    /\ Raised(validated)
    /\ IsFalse(ret)

\* the ranking response is a mapping whose picks are all mappings that the
\* validator can coerce, or drops one by one
WellFormedResponse ==
    /\ Returned(recommendations)
    /\ recommendations.val.shape = "picks"
    /\ \A i \in 1..Len(recommendations.val.picks) : recommendations.val.picks[i].isDict

\* C12: with at least one analysed symbol and a well-formed ranking
\* response, the run returns True unless the publisher itself failed.
C12_PartialFailuresNotSurfaced ==
    (op = "run_daily_analysis" /\ pc = "done"
        /\ results # <<>> /\ WellFormedResponse) =>
       \/ IsTrue(ret)
       \/ IsFalse(success)

\* 25 days of constant close price 100, volume constant 1000
ScenarioFrame == DataFrame([i \in 1..25 |-> 100], [i \in 1..25 |-> 1000])

\* C13: for 25 bars of constant close 100 and constant volume 1000 the
\* indicators are rsi 0, sma_20 100, sma_50 0, volume_ratio 1, both price
\* changes 0, current_price 100, and bb_position is a number, not NaN.
C13_ConstantSeriesScenario ==
    (op = "calculate_technical_indicators" /\ pc = "done" /\ df = ScenarioFrame) =>
       /\ Returned(indicators)
       /\ IsZero(indicators.val.rsi)
       /\ FEq(indicators.val.sma_20, 100, 1)
       /\ IsZero(indicators.val.sma_50)
       /\ FEq(indicators.val.volume_ratio, 1, 1)
       /\ IsZero(indicators.val.price_change_5d)
       /\ IsZero(indicators.val.price_change_20d)
       /\ FEq(indicators.val.current_price, 100, 1)
       /\ ~IsNaN(indicators.val.bb_position)

\* the sums behind avg_gain and avg_loss of the last rsi window
WindowGain(close) == SumSeq(LastN(Gain(close), RsiWindow))
WindowLoss(close) == SumSeq(LastN(Loss(close), RsiWindow))

RsiDefinedCase ==
    /\ op = "calculate_technical_indicators" /\ pc = "done"
    /\ ~df.isNone /\ Len(df.Close) >= RsiWindow
    /\ WindowLoss(df.Close) > 0

\* C14: when the 14-row window is populated and the average loss over it is
\* positive, rsi = 100 - 100/(1 + avg_gain/avg_loss) lies in [0, 100].
C14_RsiWithinBounds ==
    RsiDefinedCase =>
       /\ FBetween(RsiLast(df.Close), 0, 100)
       /\ Returned(indicators) => indicators.val.rsi = RsiLast(df.Close)

\* a returned record whose window holds both gains and losses
C14_Witness ==
    /\ RsiDefinedCase
    /\ Returned(indicators)
    /\ WindowGain(df.Close) > 0
    /\ FBetween(indicators.val.rsi, 1, 99)

\* update_sheet was called on the set validated from candidate, and the
\* rows were written
SheetWritten ==
    /\ op = "update_sheet" /\ Returned(validated)
    /\ \E i \in DOMAIN calls : calls[i] = "update"

LoopCompleted ==
    /\ ValidatedCall /\ candidate.shape = "picks"
    /\ \A i \in 1..Len(candidate.picks) : candidate.picks[i].isDict

\* positions among the first 10 whose pick can be coerced
CoerciblePositions(picks) ==
    {i \in 1..Len(picks) : i <= MaxValidated /\ Coercible(picks[i])}

\* C16: truncation comes before dropping: the validated picks are as many
\* as the coercible picks among the first 10 inputs, and no pick from
\* position 11 on is among them, even when one of the first 10 was dropped.
C16_TruncatesBeforeDropping ==
    LoopCompleted =>
       /\ Len(validated_picks) = Cardinality(CoerciblePositions(candidate.picks))
       /\ \A j \in 1..Len(validated_picks) :
             /\ \E i \in CoerciblePositions(candidate.picks) :
                   validated_picks[j] = ValidatedPick(candidate.picks[i])
             /\ \A i \in 1..Len(candidate.picks) :
                   i > MaxValidated => validated_picks[j].rank # candidate.picks[i].rank
       /\ Returned(validated) => validated.val.top_10_picks = validated_picks

\* more than 10 picks, one of the first 10 dropped: 9 are validated
C16_Witness ==
    /\ LoopCompleted
    /\ Len(candidate.picks) > MaxValidated
    /\ Cardinality(CoerciblePositions(candidate.picks)) = MaxValidated - 1
    /\ Len(validated_picks) = MaxValidated - 1

RankedCall == op = "get_stock_recommendations" /\ pc = "done"

\* C17: get_stock_recommendations never raises; it returns None (empty
\* input, API error, no JSON in the text, undecodable JSON, no top_10_picks)
\* or the parsed mapping, which then has the key top_10_picks; the API is
\* called at most once, and not at all for an empty input.
C17_NoneOrParsedMapping ==
    RankedCall =>
       /\ ~Raised(recommendations)
       /\ \/ IsNone(recommendations)
          \/ /\ Returned(recommendations)
             /\ response.kind = "parsed"
             /\ recommendations.val = response.parsed
             /\ HasPicksField(recommendations.val)
       /\ (results = <<>> \/ response.kind # "parsed" \/ ~HasPicksField(response.parsed))
             => IsNone(recommendations)
       /\ groq_calls <= 1
       /\ results = <<>> => groq_calls = 0

\* a parsed mapping without top_10_picks is answered by None after one call
C17_Witness ==
    /\ RankedCall
    /\ results # <<>>
    /\ response.kind = "parsed" /\ response.parsed.shape = "no_picks"
    /\ IsNone(recommendations)
    /\ groq_calls = 1

Issued(names) == {i \in DOMAIN calls : calls[i] \in names}

\* C18: update_sheet issues the clear before the rows are formatted and
\* written; it returns True exactly when formatting gave rows and the
\* values update did not raise, whatever failed in worksheet creation,
\* clearing or header formatting.
C18_ClearThenWrite ==
    /\ \A i \in Issued({"format", "update", "update:error"}) :
          \E j \in Issued({"clear", "clear:error"}) : j < i
    /\ (pc = "done" /\ Returned(success)) =>
          (IsTrue(success) <=>
              /\ format_recommendations_for_sheets(validated) # <<>>
              /\ Issued({"update"}) # {})

\* update_sheet returned False after the worksheet was cleared
C18_Witness ==
    /\ op = "update_sheet" /\ pc = "done"
    /\ IsFalse(success)
    /\ Issued({"clear"}) # {} /\ Issued({"update:error"}) # {}
    /\ sheet = <<>>

====
